---- MODULE Spec2Model ----
(***************************************************************************)
(* Model of the deepsecurity client library: the filter builders           *)
(* (filters.py), the event retrieval collections (events.py) and the       *)
(* computer record (computer.py).                                          *)
(*                                                                         *)
(* Python values are represented as follows.  A str that the code inspects *)
(* character by character (an operator name) is a sequence of one-letter   *)
(* strings; None is the empty tuple and a present optional value x is      *)
(* <<x>>; a dict is a function from its keys; a list is a sequence.  A     *)
(* call that may raise returns a record whose err field names the          *)
(* exception class ("none" when the call returned normally).               *)
(***************************************************************************)
EXTENDS Integers, Sequences, FiniteSets, TLC

VARIABLES
    coll,   \* the event collection under test: its class, manager and dict
    comp,   \* the Computer object under test (None before construction)
    last    \* the call that has just returned: what it was given, what the
            \* environment answered, what it did and returned; idle between calls

vars == <<coll, comp, last>>

None == <<>>
Some(x) == <<x>>

Ok(v) == [err |-> "none", val |-> v]
Raise(kind, msg) == [err |-> kind, msg |-> msg]

\* dict.update(): keys of b overwrite keys of a
Update(a, b) == [k \in DOMAIN a \cup DOMAIN b |-> IF k \in DOMAIN b THEN b[k] ELSE a[k]]
EmptyDict == [k \in {} |-> 0]

(***************************************************************************)
(* Bounds of the model.                                                    *)
(***************************************************************************)
MaxId == 2          \* event ids and filter ids range over 0..MaxId
MaxEvents == 2      \* events per transport response
MaxItemsArg == 2    \* maxItems arguments range over -1..MaxItemsArg
MaxIfaces == 2      \* entries of hostInterfaces

(***************************************************************************)
(* filters.py: the enumerations.                                           *)
(***************************************************************************)
EnumHostFilterType ==
    << <<"A","L","L","_","H","O","S","T","S">>,
       <<"H","O","S","T","S","_","I","N","_","G","R","O","U","P">>,
       <<"H","O","S","T","S","_","U","S","I","N","G","_","S","E","C","U","R","I","T","Y","_","P","R","O","F","I","L","E">>,
       <<"H","O","S","T","S","_","I","N","_","G","R","O","U","P","_","A","N","D","_","A","L","L","_","S","U","B","G","R","O","U","P","S">>,
       <<"S","P","E","C","I","F","I","C","_","H","O","S","T">>,
       <<"M","Y","_","H","O","S","T","S">> >>

EnumTimeFilterType ==
    << <<"L","A","S","T","_","H","O","U","R">>,
       <<"L","A","S","T","_","2","4","_","H","O","U","R","S">>,
       <<"L","A","S","T","_","7","_","D","A","Y","S">>,
       <<"C","U","S","T","O","M","_","R","A","N","G","E">>,
       <<"S","P","E","C","I","F","I","C","_","T","I","M","E">>,
       <<"P","R","E","V","I","O","U","S","_","M","O","N","T","H">> >>

EnumOperator ==
    << <<"G","R","E","A","T","E","R","_","T","H","A","N">>,
       <<"L","E","S","S","_","T","H","A","N">>,
       <<"E","Q","U","A","L">> >>

EnumTagFilterType ==
    << <<"A","L","L">>,
       <<"U","N","T","A","G","G","E","D">>,
       <<"T","A","G","S">> >>

EnumExternalFilterType ==
    << <<"A","L","L","_","E","X","T","_","H","O","S","T","S">>,
       <<"H","O","S","T","S","_","I","N","_","E","X","T","_","G","R","O","U","P">>,
       <<"S","P","E","C","I","F","I","C","_","E","X","T","_","H","O","S","T">>,
       <<"H","O","S","T","S","_","I","N","_","E","X","T","_","G","R","O","U","P","_","A","N","D","_","A","L","L","_","S","U","B","G","R","O","U","P","S">> >>

RestEnumOperator ==
    << <<"G","T">>,
       <<"G","E">>,
       <<"E","Q">>,
       <<"L","T">>,
       <<"L","E">> >>

(***************************************************************************)
(* str.upper() on ASCII text, letter by letter.                            *)
(***************************************************************************)
LowerLetters == <<"a","b","c","d","e","f","g","h","i","j","k","l","m",
                  "n","o","p","q","r","s","t","u","v","w","x","y","z">>
UpperLetters == <<"A","B","C","D","E","F","G","H","I","J","K","L","M",
                  "N","O","P","Q","R","S","T","U","V","W","X","Y","Z">>

UpperChar(c) ==
    IF \E i \in 1..26 : LowerLetters[i] = c
    THEN UpperLetters[CHOOSE i \in 1..26 : LowerLetters[i] = c]
    ELSE c

upper(s) == [i \in 1..Len(s) |-> UpperChar(s[i])]

InList(x, list) == \E i \in 1..Len(list) : list[i] = x

\* 'Valid operators: %s' % ', '.join(valid_ops)
ValidOperatorsMessage(valid_ops) == [text |-> "Valid operators: ", joined |-> valid_ops]

\* The same function with the assert compiled away.
Mutant_format_and_validate_operator(op, valid_ops) == Ok(upper(op))

_format_and_validate_operator(op, valid_ops) ==
    LET up == upper(op)
    IN  IF InList(up, valid_ops)
        THEN Ok(up)
        ELSE Raise("AssertionError", ValidOperatorsMessage(valid_ops))

create_host_filter(hostGroupID, hostID, securityProfileID, operator) ==
    LET t == _format_and_validate_operator(operator, EnumHostFilterType)
    IN  IF t.err # "none" THEN t
        ELSE Ok([hostGroupID |-> hostGroupID,
                 hostID |-> hostID,
                 securityProfileID |-> securityProfileID,
                 type |-> t.val])

create_time_filter(rangeFrom, rangeTo, specificTime, operator) ==
    LET t == _format_and_validate_operator(operator, EnumTimeFilterType)
    IN  IF t.err # "none" THEN t
        ELSE Ok([rangeFrom |-> rangeFrom,
                 rangeTo |-> rangeTo,
                 specificTime |-> specificTime,
                 type |-> t.val])

\* long(eventID) of an int is that int
create_id_filter(eventID, operator) ==
    LET t == _format_and_validate_operator(operator, EnumOperator)
    IN  IF t.err # "none" THEN t
        ELSE Ok([id |-> eventID, operator |-> t.val])

create_tag_filter(tags, operator) ==
    LET t == _format_and_validate_operator(operator, EnumTagFilterType)
    IN  IF t.err # "none" THEN t
        ELSE Ok([tags |-> tags, type |-> t.val])

\* str(x): str(None) is the text 'None'
str(x) == IF x = None THEN "None" ELSE x[1]

create_external_filter(hostExternalID, hostGroupExternalID, operator) ==
    LET t == _format_and_validate_operator(operator, EnumExternalFilterType)
    IN  IF t.err # "none" THEN t
        ELSE Ok([hostExternalID |-> str(hostExternalID),
                 hostGroupExternalID |-> str(hostGroupExternalID),
                 type |-> t.val])

\* An operator argument is truthy when it is a non-empty str.
Truthy(s) == Len(s) > 0

\* The same builder storing int(maxItems) as it is.
Mutant_create_rest_event_filter(eventId, eventIdOp, eventTime, eventTimeOp, maxItems) ==
    IF maxItems = None
    THEN Raise("TypeError", "int() argument must be a string or a number, not 'NoneType'")
    ELSE
      LET filter0 == [eventId |-> eventId,
                      eventIdOp |-> None,
                      eventTime |-> eventTime,
                      eventTimeOp |-> None,
                      maxItems |-> maxItems[1]]
          idOp == _format_and_validate_operator(eventIdOp, RestEnumOperator)
          timeOp == _format_and_validate_operator(eventTimeOp, RestEnumOperator)
      IN  IF Truthy(eventIdOp) /\ idOp.err # "none" THEN idOp
          ELSE IF Truthy(eventTimeOp) /\ timeOp.err # "none" THEN timeOp
          ELSE Ok([filter0 EXCEPT
                     !.eventIdOp = IF Truthy(eventIdOp) THEN Some(idOp.val) ELSE None,
                     !.eventTimeOp = IF Truthy(eventTimeOp) THEN Some(timeOp.val) ELSE None])

create_rest_event_filter(eventId, eventIdOp, eventTime, eventTimeOp, maxItems) ==
    IF maxItems = None
    THEN Raise("TypeError", "int() argument must be a string or a number, not 'NoneType'")
    ELSE
      LET n == maxItems[1]
          filter0 == [eventId |-> eventId,
                      eventIdOp |-> None,
                      eventTime |-> eventTime,
                      eventTimeOp |-> None,
                      maxItems |-> IF n >= 1 THEN n ELSE 1]
          idOp == _format_and_validate_operator(eventIdOp, RestEnumOperator)
          timeOp == _format_and_validate_operator(eventTimeOp, RestEnumOperator)
      IN  IF Truthy(eventIdOp) /\ idOp.err # "none" THEN idOp
          ELSE IF Truthy(eventTimeOp) /\ timeOp.err # "none" THEN timeOp
          ELSE Ok([filter0 EXCEPT
                     !.eventIdOp = IF Truthy(eventIdOp) THEN Some(idOp.val) ELSE None,
                     !.eventTimeOp = IF Truthy(eventTimeOp) THEN Some(timeOp.val) ELSE None])

\* Default arguments of the builders.
DefaultHostFilter == create_host_filter(None, None, None, EnumHostFilterType[1])
DefaultTimeFilter == create_time_filter(None, None, None, EnumTimeFilterType[3])
DefaultIdFilter == create_id_filter(0, EnumOperator[1])

(***************************************************************************)
(* events.py: building the call parameters and making the call.            *)
(***************************************************************************)
\* "x if x else default": None and an empty dict are both falsy
FilterGiven(f) == f # None /\ DOMAIN f[1] # {}

_build_call_parms(time_filter, host_filter, id_filter, rest_filter, ext_parms, REST_API) ==
    LET ext == IF ext_parms = None THEN EmptyDict ELSE ext_parms[1]
    IN  IF REST_API
        THEN LET f == IF FilterGiven(rest_filter)
                      THEN Ok(rest_filter[1])
                      ELSE create_rest_event_filter(Some(0), RestEnumOperator[1], None,
                                                    RestEnumOperator[3], None)
             IN  IF f.err # "none" THEN f ELSE Ok(Update(f.val, ext))
        ELSE LET tf == IF FilterGiven(time_filter) THEN Ok(time_filter[1]) ELSE DefaultTimeFilter
                 hf == IF FilterGiven(host_filter) THEN Ok(host_filter[1]) ELSE DefaultHostFilter
                 idf == IF FilterGiven(id_filter) THEN Ok(id_filter[1]) ELSE DefaultIdFilter
             IN  IF tf.err # "none" THEN tf
                 ELSE IF hf.err # "none" THEN hf
                 ELSE IF idf.err # "none" THEN idf
                 ELSE Ok(Update([timeFilter |-> tf.val,
                                 hostFilter |-> hf.val,
                                 eventIdFilter |-> idf.val], ext))

\* core.CoreApi: the two protocol tags
API_TYPE_REST == "REST"
API_TYPE_SOAP == "SOAP"

\* manager._get_request_format(api, call, use_cookie_auth)
_get_request_format(api, call, use_cookie_auth) ==
    [api |-> api, call |-> call, use_cookie_auth |-> use_cookie_auth,
     query |-> None, data |-> None]

\* Python values a response's data field may hold
List(items) == [kind |-> "list", items |-> items]
Dict(d) == [kind |-> "dict", d |-> d]
IsList(v) == v.kind = "list"

\* manager._request(req): what the transport does with the request is the
\* environment's choice: it raises, or returns None or a {status, data} dict
TransportRaises == [raises |-> TRUE]
TransportReturns(resp) == [raises |-> FALSE, resp |-> resp]

\* The same call with the request sent again when the status is not 200.
Mutant_make_call(entrypoint, manager, call_data, call_query, REST_API, cookieAuth, outcome) ==
    IF ~manager
    THEN [err |-> "AttributeError", reqs |-> <<>>]
    ELSE
      LET req == [_get_request_format(IF REST_API THEN API_TYPE_REST ELSE API_TYPE_SOAP,
                                      entrypoint, cookieAuth)
                    EXCEPT !.query = call_query, !.data = call_data]
      IN  IF outcome.raises
          THEN [err |-> "TransportError", reqs |-> <<req>>]
          ELSE LET resp == outcome.resp
               IN  IF resp # None /\ resp[1].status = 200
                   THEN [err |-> "none", reqs |-> <<req>>,
                         resp |-> IF ~IsList(resp[1].data)
                                  THEN Some([resp[1] EXCEPT !.data = List(<<resp[1].data>>)])
                                  ELSE resp]
                   ELSE [err |-> "none", reqs |-> <<req, req>>, resp |-> resp]

\* The same call handing the response back as the transport returned it.
Mutant_make_call_as_returned(entrypoint, manager, call_data, call_query, REST_API, cookieAuth, outcome) ==
    IF ~manager
    THEN [err |-> "AttributeError", reqs |-> <<>>]
    ELSE
      LET req == [_get_request_format(IF REST_API THEN API_TYPE_REST ELSE API_TYPE_SOAP,
                                      entrypoint, cookieAuth)
                    EXCEPT !.query = call_query, !.data = call_data]
      IN  IF outcome.raises
          THEN [err |-> "TransportError", reqs |-> <<req>>]
          ELSE [err |-> "none", reqs |-> <<req>>, resp |-> outcome.resp]

\* manager is TRUE when a manager is attached (None otherwise); outcome is
\* what manager._request does with the request
_make_call(entrypoint, manager, call_data, call_query, REST_API, cookieAuth, outcome) ==
    IF ~manager
    THEN [err |-> "AttributeError", reqs |-> <<>>]
    ELSE
      LET req == [_get_request_format(IF REST_API THEN API_TYPE_REST ELSE API_TYPE_SOAP,
                                      entrypoint, cookieAuth)
                    EXCEPT !.query = call_query, !.data = call_data]
      IN  IF outcome.raises
          THEN [err |-> "TransportError", reqs |-> <<req>>]
          ELSE LET resp == outcome.resp
               IN  [err |-> "none", reqs |-> <<req>>,
                    resp |-> IF resp # None /\ resp[1].status = 200 /\ ~IsList(resp[1].data)
                             THEN Some([resp[1] EXCEPT !.data = List(<<resp[1].data>>)])
                             ELSE resp]

(***************************************************************************)
(* events.py: the retrieval collections.  A collection is a record of its  *)
(* class, whether a manager is attached, and its dict (event id -> _Event).*)
(***************************************************************************)
\* core.CoreDict.__setitem__: plain dict assignment
SetItem(store, key, value) == Update(store, key :> value)

\* _Event(event, log_func): the API key pairs re-exposed as properties
_Event(event) == [properties |-> event]

RECURSIVE GetPath(_, _)
\* d[k1][k2]...: a missing key raises KeyError
GetPath(d, path) ==
    IF path = <<>> THEN Ok(d)
    ELSE IF Head(path) \in DOMAIN d THEN GetPath(d[Head(path)], Tail(path))
    ELSE Raise("KeyError", Head(path))

\* response['data'][0][k1]...[kn]
ResponseEvents(resp, path) ==
    IF resp = None THEN Raise("TypeError", "'NoneType' object has no attribute '__getitem__'")
    ELSE LET data == resp[1].data
         IN  IF ~IsList(data) THEN Raise("KeyError", "0")
             ELSE IF data.items = <<>> THEN Raise("IndexError", "list index out of range")
             ELSE GetPath(data.items[1], path)

RECURSIVE MutantInsertEvents(_, _, _)
\* The same loop keeping the record stored first (dict.setdefault).
MutantInsertEvents(store, events, idField) ==
    IF events = <<>> THEN [err |-> "none", store |-> store]
    ELSE LET event == Head(events)
         IN  IF idField \notin DOMAIN event
             THEN [err |-> "KeyError", store |-> store]
             ELSE MutantInsertEvents(IF event[idField] \in DOMAIN store THEN store
                                     ELSE SetItem(store, event[idField], _Event(event)),
                                     Tail(events), idField)

RECURSIVE MutantInsertEventsAfresh(_, _, _)
\* The same loop with the dict emptied before each assignment.
MutantInsertEventsAfresh(store, events, idField) ==
    IF events = <<>> THEN [err |-> "none", store |-> store]
    ELSE LET event == Head(events)
         IN  IF idField \notin DOMAIN event
             THEN [err |-> "KeyError", store |-> store]
             ELSE MutantInsertEventsAfresh(SetItem(EmptyDict, event[idField], _Event(event)),
                                           Tail(events), idField)

RECURSIVE InsertEvents(_, _, _)
\* for event in events: self[event[idField]] = _Event(event, self.log)
InsertEvents(store, events, idField) ==
    IF events = <<>> THEN [err |-> "none", store |-> store]
    ELSE LET event == Head(events)
         IN  IF idField \notin DOMAIN event
             THEN [err |-> "KeyError", store |-> store]
             ELSE InsertEvents(SetItem(store, event[idField], _Event(event)),
                               Tail(events), idField)

\* The same step returning the number of events of the response.
MutantFetch(self, parms, entrypoint, asQuery, REST_API, cookieAuth, path, idField, outcome) ==
    LET c == _make_call(entrypoint, self.manager,
                        IF asQuery THEN None ELSE Some(parms.val),
                        IF asQuery THEN Some(parms.val) ELSE None,
                        REST_API, cookieAuth, outcome)
        ev == ResponseEvents(c.resp, path)
        ins == InsertEvents(self.store, ev.val, idField)
        failed(e, reqs, response) ==
            [store |-> self.store, err |-> e, parms |-> parms, reqs |-> reqs,
             response |-> response, events |-> None, ret |-> None]
    IN  IF parms.err # "none" THEN failed(parms.err, <<>>, None)
        ELSE IF c.err # "none" THEN failed(c.err, c.reqs, None)
        ELSE IF ev.err # "none" THEN failed(ev.err, c.reqs, Some(c.resp))
        ELSE [store |-> ins.store, err |-> ins.err, parms |-> parms, reqs |-> c.reqs,
              response |-> Some(c.resp),
              events |-> Some(ev.val),
              ret |-> IF ins.err = "none" THEN Some(Len(ev.val)) ELSE None]

\* The body every get() shares: make the call with the parameters built (as
\* the request's query or data), take the event list at the class's nesting
\* path, insert each event under its id field, return len(self).  An exception
\* raised on the way ends the call there.  response is what _make_call
\* handed back, when it returned.
Fetch(self, parms, entrypoint, asQuery, REST_API, cookieAuth, path, idField, outcome) ==
    LET c == _make_call(entrypoint, self.manager,
                        IF asQuery THEN None ELSE Some(parms.val),
                        IF asQuery THEN Some(parms.val) ELSE None,
                        REST_API, cookieAuth, outcome)
        ev == ResponseEvents(c.resp, path)
        ins == InsertEvents(self.store, ev.val, idField)
        failed(e, reqs, response) ==
            [store |-> self.store, err |-> e, parms |-> parms, reqs |-> reqs,
             response |-> response, events |-> None, ret |-> None]
    IN  IF parms.err # "none" THEN failed(parms.err, <<>>, None)
        ELSE IF c.err # "none" THEN failed(c.err, c.reqs, None)
        ELSE IF ev.err # "none" THEN failed(ev.err, c.reqs, Some(c.resp))
        ELSE [store |-> ins.store, err |-> ins.err, parms |-> parms, reqs |-> c.reqs,
              response |-> Some(c.resp),
              events |-> Some(ev.val),
              ret |-> IF ins.err = "none" THEN Some(Cardinality(DOMAIN ins.store)) ELSE None]

SystemEvents_get(self, time_filter, host_filter, id_filter, includeNonHostevents, outcome) ==
    Fetch(self,
          _build_call_parms(time_filter, host_filter, id_filter, None,
                            Some([includeNonHostEvents |-> includeNonHostevents]), FALSE),
          "systemEventRetrieve2", FALSE, FALSE, TRUE,
          <<"systemEvents">>, "systemEventID", outcome)

AntiMalwareEvents_get(self, time_filter, host_filter, id_filter, rest_filter, REST_API, outcome) ==
    IF REST_API
    THEN Fetch(self,
               _build_call_parms(None, None, None, rest_filter, None, REST_API),
               "events/antimalware", TRUE, REST_API, FALSE,
               <<"antiMalwareEventListing", "events">>, "antiMalwareEventID", outcome)
    ELSE Fetch(self,
               _build_call_parms(time_filter, host_filter, id_filter, None, None, FALSE),
               "antiMalwareEventRetrieve2", FALSE, FALSE, TRUE,
               <<"antiMalwareEvents">>, "antiMalwareEventID", outcome)

WebReputationEvents_get(self, time_filter, host_filter, id_filter, rest_filter, REST_API, outcome) ==
    IF REST_API
    THEN Fetch(self,
               _build_call_parms(None, None, None, rest_filter, None, REST_API),
               "events/webreputation", TRUE, REST_API, FALSE,
               <<"WebReputationEventListing", "WebReputationEvent">>,
               "webReputationEventID", outcome)
    ELSE Fetch(self,
               _build_call_parms(time_filter, host_filter, id_filter, None, None, FALSE),
               "webReputationEventRetrieve2", FALSE, FALSE, TRUE,
               <<"webReputationEvents">>, "webReputationEventID", outcome)

FirewallEvents_get(self, time_filter, host_filter, id_filter, outcome) ==
    Fetch(self,
          _build_call_parms(time_filter, host_filter, id_filter, None, None, FALSE),
          "firewallEventRetrieve2", FALSE, FALSE, TRUE,
          <<"firewallEvents">>, "firewallEventID", outcome)

IntrusionPreventionEvents_get(self, time_filter, host_filter, id_filter, outcome) ==
    Fetch(self,
          _build_call_parms(time_filter, host_filter, id_filter, None, None, FALSE),
          "DPIEventRetrieve2", FALSE, FALSE, TRUE,
          <<"DPIEvents">>, "intrusionEventID", outcome)

\* The REST branch does not hand REST_API to _build_call_parms, whose
\* REST_API parameter then keeps its default, False.
IntegrityMonitoringEvents_get(self, time_filter, host_filter, id_filter, rest_filter, extendedDesc, REST_API, outcome) ==
    IF REST_API
    THEN Fetch(self,
               _build_call_parms(None, None, None, rest_filter,
                                 Some([extendedDesc |-> extendedDesc]), FALSE),
               "events/integrity", TRUE, REST_API, TRUE,
               <<"ListEventsResponse", "events">>, "eventID", outcome)
    ELSE Fetch(self,
               _build_call_parms(time_filter, host_filter, id_filter, None, None, FALSE),
               "IntegrityEventRetrieve2", FALSE, FALSE, TRUE,
               <<"integrityEventRetrieve2Return", "integrityEvents">>,
               "integrityEventID", outcome)

LogInspectionEvents_get(self, time_filter, host_filter, id_filter, rest_filter, REST_API, outcome) ==
    IF REST_API
    THEN Fetch(self,
               _build_call_parms(None, None, None, rest_filter, None, REST_API),
               "events/logInspection", TRUE, REST_API, TRUE,
               <<"ListEventsResponse", "events">>, "eventID", outcome)
    ELSE Fetch(self,
               _build_call_parms(time_filter, host_filter, id_filter, None, None, FALSE),
               "logInspectionEventRetrieve2", FALSE, FALSE, TRUE,
               <<"logInspectionEvents">>, "logInspectionEventID", outcome)

ApplicationControlEvents_get(self, rest_filter, outcome) ==
    Fetch(self,
          _build_call_parms(None, None, None, rest_filter, None, TRUE),
          "events/appcontrol", TRUE, TRUE, TRUE,
          <<"ListEventsResponse", "events">>, "eventID", outcome)

(***************************************************************************)
(* computer.py: the computer record.                                       *)
(***************************************************************************)
RenameTable ==
    << <<"name", "hostname">>,
       <<"description", "description">>,
       <<"displayName", "display_name">>,
       <<"platform", "platform">>,
       <<"securityProfileID", "policy_id">>,
       <<"cloudObjectImageId", "cloud_image_id">>,
       <<"cloudObjectInstanceId", "cloud_instance_id">>,
       <<"cloudObjectSecurityGroupIds", "cloud_security_policy">>,
       <<"cloudObjectType", "cloud_type">>,
       <<"hostLight", "status_light">>,
       <<"securityProfileName", "policy_name">>,
       <<"lastIPUsed", "last_ip">>,
       <<"overallAntiMalwareStatus", "module_status_anti_malware">>,
       <<"overallDpiStatus", "module_status_ips">>,
       <<"overallFirewallStatus", "module_status_firewall">>,
       <<"overallIntegrityMonitoringStatus", "module_status_integrity_monitoring">>,
       <<"overallLogInspectionStatus", "module_status_log_inspection">>,
       <<"overallWebReputationStatus", "module_status_web_reputation">>,
       <<"overallStatus", "overall_status">> >>

\* One pass of "try: setattr(...) except: if self.manager: self.manager.log(...)".
\* The log message is formatted from host_details['name'] before log is called,
\* so with a manager attached and no 'name' the handler itself raises KeyError.
SetProperty(state, host_details, manager, key, prop, value) ==
    IF state.err # "none" THEN state
    ELSE IF key \in DOMAIN host_details
    THEN [state EXCEPT !.attrs = Update(@, prop :> value)]
    ELSE IF ~manager THEN state
    ELSE IF "name" \notin DOMAIN host_details THEN [state EXCEPT !.err = "KeyError"]
    ELSE [state EXCEPT !.logs = Append(@, prop)]

RECURSIVE RenamePass(_, _, _, _)
RenamePass(state, host_details, manager, table) ==
    IF table = <<>> THEN state
    ELSE LET key == Head(table)[1]
             prop == Head(table)[2]
         IN  RenamePass(SetProperty(state, host_details, manager, key, prop,
                                    IF key \in DOMAIN host_details
                                    THEN host_details[key] ELSE None),
                        host_details, manager, Tail(table))

_process_host_detail(host_details, manager) ==
    LET renamed == RenamePass([err |-> "none", attrs |-> EmptyDict, logs |-> <<>>],
                              host_details, manager, RenameTable)
    IN  SetProperty(renamed, host_details, manager, "hostInterfaces", "number_of_interfaces",
                    IF "hostInterfaces" \in DOMAIN host_details
                    THEN Len(host_details["hostInterfaces"]) ELSE None)

\* Computer.__init__: the object exists only when the constructor returns
Computer(host_details, manager) ==
    LET r == _process_host_detail(host_details, manager)
    IN  [err |-> r.err, logs |-> r.logs,
         obj |-> IF r.err = "none"
                 THEN Some([data |-> host_details, manager |-> manager, attrs |-> r.attrs])
                 ELSE None]

\* One call of a manager operation, as the manager sees it
ManagerCall(operation, keyword, value) ==
    [operation |-> operation, keyword |-> keyword, value |-> value]

\* The body the five action methods share.  The manager's operation returns
\* nothing the method looks at: whatever the remote outcome, the method falls
\* off its end and returns None.
Delegate(self, operation, keyword, outcome) ==
    IF ~self.manager THEN [err |-> "none", ret |-> None, calls |-> <<>>]
    ELSE IF "ID" \notin DOMAIN self.data THEN [err |-> "KeyError", calls |-> <<>>]
    ELSE [err |-> "none", ret |-> None,
          calls |-> <<ManagerCall(operation, keyword, self.data["ID"])>>]

\* The same method without its "if not self.manager: return None" line.
Mutant_send_events_to_manager(self, outcome) ==
    IF "ID" \notin DOMAIN self.data THEN [err |-> "KeyError", calls |-> <<>>]
    ELSE [err |-> "none", ret |-> None,
          calls |-> <<ManagerCall("request_events_from_computer", "host_id", self.data["ID"])>>]

send_events_to_manager(self, outcome) ==
    Delegate(self, "request_events_from_computer", "host_id", outcome)

clear_warnings_and_errors(self, outcome) ==
    Delegate(self, "clear_warnings_and_errors_from_computer", "host_ids", outcome)

scan_for_malware(self, outcome) ==
    Delegate(self, "scan_computers_for_malware", "host_ids", outcome)

scan_for_integrity(self, outcome) ==
    Delegate(self, "scan_computers_for_integrity", "host_ids", outcome)

scan_for_recommendations(self, outcome) ==
    Delegate(self, "scan_computers_for_recommendations", "host_ids", outcome)

(***************************************************************************)
(* The inputs the operations are exercised on.                             *)
(***************************************************************************)
LowerChar(c) ==
    IF \E i \in 1..26 : UpperLetters[i] = c
    THEN LowerLetters[CHOOSE i \in 1..26 : UpperLetters[i] = c]
    ELSE c
lower(s) == [i \in 1..Len(s) |-> LowerChar(s[i])]
capitalize(s) == [i \in 1..Len(s) |-> IF i = 1 THEN UpperChar(s[i]) ELSE LowerChar(s[i])]

Members(list) == {list[i] : i \in 1..Len(list)}
Bogus == <<"B","O","G","U","S">>

\* Every member of the enumeration in upper, lower and mixed case; the empty
\* string, an unknown word and members of other enumerations.
OperatorInputs(valid_ops) ==
    Members(valid_ops)
    \cup {lower(m) : m \in Members(valid_ops)}
    \cup {capitalize(m) : m \in Members(valid_ops)}
    \cup {<<>>, Bogus, lower(Bogus), RestEnumOperator[1], EnumOperator[3]}

HostArgs == {<<None, None, None>>, <<Some(1), None, Some(MaxId)>>, <<None, Some(MaxId), None>>}
TimeArgs == {<<None, None, None>>, <<Some("t1"), Some("t2"), None>>, <<None, None, Some("t3")>>}
TagArgs == {None, Some("red,!blue")}
ExternalArgs == {<<None, None>>, <<Some("x1"), None>>, <<None, Some("g1")>>}
MaxItemsArgs == {None} \cup {Some(n) : n \in -1..MaxItemsArg}

SampleTimeFilter == Some(create_time_filter(None, None, None, EnumTimeFilterType[1]).val)
SampleHostFilter == Some(create_host_filter(None, Some(1), None, EnumHostFilterType[5]).val)
SampleIdFilter == Some(create_id_filter(1, EnumOperator[3]).val)
SampleRestFilter ==
    Some(create_rest_event_filter(Some(1), RestEnumOperator[2], None, <<>>, Some(MaxItemsArg)).val)

\* The filter arguments a get() is called with
NoFilters == [time |-> None, host |-> None, id |-> None, rest |-> None]
RestOnly == [NoFilters EXCEPT !.rest = SampleRestFilter]
FilterArgs ==
    { NoFilters,
      RestOnly,
      [time |-> SampleTimeFilter, host |-> SampleHostFilter, id |-> SampleIdFilter, rest |-> None],
      [time |-> SampleTimeFilter, host |-> None, id |-> None, rest |-> None],
      [time |-> None, host |-> SampleHostFilter, id |-> SampleIdFilter, rest |-> SampleRestFilter] }

Classes ==
    {"SystemEvents", "AntiMalwareEvents", "WebReputationEvents", "FirewallEvents",
     "IntrusionPreventionEvents", "IntegrityMonitoringEvents", "LogInspectionEvents",
     "ApplicationControlEvents"}

\* Where the manager's response to a class's call holds the event list
NestingPath(cls, REST_API) ==
    CASE cls = "SystemEvents" -> <<"systemEvents">>
      [] cls = "AntiMalwareEvents" ->
            IF REST_API THEN <<"antiMalwareEventListing", "events">> ELSE <<"antiMalwareEvents">>
      [] cls = "WebReputationEvents" ->
            IF REST_API THEN <<"WebReputationEventListing", "WebReputationEvent">>
            ELSE <<"webReputationEvents">>
      [] cls = "FirewallEvents" -> <<"firewallEvents">>
      [] cls = "IntrusionPreventionEvents" -> <<"DPIEvents">>
      [] cls = "IntegrityMonitoringEvents" ->
            IF REST_API THEN <<"ListEventsResponse", "events">>
            ELSE <<"integrityEventRetrieve2Return", "integrityEvents">>
      [] cls = "LogInspectionEvents" ->
            IF REST_API THEN <<"ListEventsResponse", "events">> ELSE <<"logInspectionEvents">>
      [] cls = "ApplicationControlEvents" -> <<"ListEventsResponse", "events">>

\* The field of an event of that response that holds its id
IdField(cls, REST_API) ==
    CASE cls = "SystemEvents" -> "systemEventID"
      [] cls = "AntiMalwareEvents" -> "antiMalwareEventID"
      [] cls = "WebReputationEvents" -> "webReputationEventID"
      [] cls = "FirewallEvents" -> "firewallEventID"
      [] cls = "IntrusionPreventionEvents" -> "intrusionEventID"
      [] cls = "IntegrityMonitoringEvents" -> IF REST_API THEN "eventID" ELSE "integrityEventID"
      [] cls = "LogInspectionEvents" -> IF REST_API THEN "eventID" ELSE "logInspectionEventID"
      [] cls = "ApplicationControlEvents" -> "eventID"

\* An event record: its id under the id field, and the rest of it
EventRecord(idField, id, detail) == (idField :> id) @@ ("detail" :> detail)
\* Events of ids 1..MaxId, event 1 in two versions, and an event without id
Events(idField) ==
    {EventRecord(idField, i, "a") : i \in 1..MaxId}
    \cup {EventRecord(idField, 1, "b"), ("detail" :> "a")}
EventSeqs(idField) == UNION {[1..n -> Events(idField)] : n \in 0..MaxEvents}

RECURSIVE Nest(_, _)
Nest(path, leaf) == IF path = <<>> THEN leaf ELSE (Head(path) :> Nest(Tail(path), leaf))

Response(status, data) == TransportReturns(Some([status |-> status, data |-> data]))

Statuses == {200, 500}

\* What manager._request may do with the request of a class's get(): raise,
\* return None, or return a status and a data value: an empty list, a list or
\* a single item holding the event list at the class's nesting path, or an
\* item without that path
OutcomesAt(path, idField) ==
    {TransportRaises, TransportReturns(None),
     Response(200, List(<<>>)), Response(200, List(<<EmptyDict>>))}
    \cup {Response(200, List(<<Nest(path, evs)>>)) : evs \in EventSeqs(idField)}
    \cup {Response(st, Dict(Nest(path, <<EventRecord(idField, 1, "a")>>))) : st \in Statuses}
    \cup {Response(500, List(<<Nest(path, <<EventRecord(idField, i, "b")>>)>>)) : i \in 1..MaxId}
Outcomes(cls, REST_API) == OutcomesAt(NestingPath(cls, REST_API), IdField(cls, REST_API))

\* The answer every combination of arguments is tried against
CoreOutcome(cls, REST_API) ==
    Response(200, List(<<Nest(NestingPath(cls, REST_API),
                              <<EventRecord(IdField(cls, REST_API), 1, "a")>>)>>))

\* The arguments every answer is tried against
BasicArgs(REST_API) == IF REST_API THEN RestOnly ELSE NoFilters

SoapOnly == {"SystemEvents", "FirewallEvents", "IntrusionPreventionEvents"}
RestOnlyClasses == {"ApplicationControlEvents"}
\* The classes whose get() takes a flag that goes into the call parameters
Flagged == {"SystemEvents", "IntegrityMonitoringEvents"}

Transports(cls) ==
    IF cls \in SoapOnly THEN {FALSE} ELSE IF cls \in RestOnlyClasses THEN {TRUE} ELSE BOOLEAN
ArgsOf(cls) ==
    IF cls \in SoapOnly THEN {a \in FilterArgs : a.rest = None}
    ELSE IF cls \in RestOnlyClasses
    THEN {a \in FilterArgs : a.time = None /\ a.host = None /\ a.id = None}
    ELSE FilterArgs
\* The calls of get() the model makes on each class: every answer against the
\* basic arguments, and every combination of arguments and flag the method
\* takes against the core answer
GetInputs ==
    [cls \in Classes |->
       UNION { {c \in [args : ArgsOf(cls),
                       flag : IF cls \in Flagged THEN BOOLEAN ELSE {TRUE},
                       REST_API : {rest},
                       outcome : Outcomes(cls, rest)] :
                  \/ c.outcome = CoreOutcome(cls, rest)
                  \/ c.args = BasicArgs(rest) /\ c.flag} :
               rest \in Transports(cls) }]

Interfaces == {[i \in 1..n |-> EmptyDict] : n \in 0..MaxIfaces}
ProbeKeys == {"ID", "name", "description", "overallStatus", "hostInterfaces"}
HostDetail(keys, interfaces) ==
    [k \in keys |-> CASE k = "ID" -> 7
                      [] k = "name" -> "h1"
                      [] k = "description" -> "d"
                      [] k = "overallStatus" -> "s"
                      [] k = "hostInterfaces" -> interfaces]
\* Host details holding any subset of the probe keys
HostDetails == {HostDetail(keys, ifs) : keys \in SUBSET ProbeKeys, ifs \in Interfaces}

(***************************************************************************)
(* The state machine.  The library is synchronous and single-threaded:     *)
(* calls do not overlap.  Each action but Return is one whole call of one  *)
(* operation, made by an idle caller; last then records the call until the *)
(* caller takes the result (Return) and is idle again.                     *)
(***************************************************************************)
Init ==
    /\ coll = None
    /\ comp = None
    /\ last = [op |-> "idle"]

Idle == last.op = "idle"

\* The caller takes what the call returned or raised
Return ==
    /\ ~Idle
    /\ last' = [op |-> "idle"]
    /\ UNCHANGED <<coll, comp>>

FilterCall(builder, valid_ops, operators, args, res) ==
    [op |-> "filter", builder |-> builder, valid_ops |-> valid_ops,
     operators |-> operators, args |-> args, res |-> res]
Operand(field, given) == [field |-> field, given |-> given]

CreateHostFilter ==
    /\ Idle
    /\ \E a \in HostArgs, operator \in OperatorInputs(EnumHostFilterType) :
         last' = FilterCall("create_host_filter", EnumHostFilterType,
                            <<Operand("type", operator)>>, a,
                            create_host_filter(a[1], a[2], a[3], operator))
    /\ UNCHANGED <<coll, comp>>

CreateTimeFilter ==
    /\ Idle
    /\ \E a \in TimeArgs, operator \in OperatorInputs(EnumTimeFilterType) :
         last' = FilterCall("create_time_filter", EnumTimeFilterType,
                            <<Operand("type", operator)>>, a,
                            create_time_filter(a[1], a[2], a[3], operator))
    /\ UNCHANGED <<coll, comp>>

CreateIdFilter ==
    /\ Idle
    /\ \E eventID \in 0..MaxId, operator \in OperatorInputs(EnumOperator) :
         last' = FilterCall("create_id_filter", EnumOperator,
                            <<Operand("operator", operator)>>, <<eventID>>,
                            create_id_filter(eventID, operator))
    /\ UNCHANGED <<coll, comp>>

CreateTagFilter ==
    /\ Idle
    /\ \E tags \in TagArgs, operator \in OperatorInputs(EnumTagFilterType) :
         last' = FilterCall("create_tag_filter", EnumTagFilterType,
                            <<Operand("type", operator)>>, <<tags>>,
                            create_tag_filter(tags, operator))
    /\ UNCHANGED <<coll, comp>>

CreateExternalFilter ==
    /\ Idle
    /\ \E a \in ExternalArgs, operator \in OperatorInputs(EnumExternalFilterType) :
         last' = FilterCall("create_external_filter", EnumExternalFilterType,
                            <<Operand("type", operator)>>, a,
                            create_external_filter(a[1], a[2], operator))
    /\ UNCHANGED <<coll, comp>>

CreateRestEventFilter ==
    /\ Idle
    /\ \E eventId \in {None, Some(MaxId)}, maxItems \in MaxItemsArgs,
          eventIdOp \in OperatorInputs(RestEnumOperator),
          eventTimeOp \in OperatorInputs(RestEnumOperator) :
         last' = FilterCall("create_rest_event_filter", RestEnumOperator,
                            <<Operand("eventIdOp", eventIdOp),
                              Operand("eventTimeOp", eventTimeOp)>>,
                            <<eventId, maxItems>>,
                            create_rest_event_filter(eventId, eventIdOp, None,
                                                     eventTimeOp, maxItems))
    /\ UNCHANGED <<coll, comp>>

\* __init__ of a collection class: an empty dict and the manager given
NewCollection ==
    /\ Idle
    /\ \E cls \in Classes, manager \in BOOLEAN :
         coll' = Some([cls |-> cls, manager |-> manager, store |-> EmptyDict])
    /\ last' = [op |-> "new"]
    /\ UNCHANGED comp

GetCall(REST_API, args, ext, outcome, res) ==
    [op |-> "get", cls |-> coll[1].cls, manager |-> coll[1].manager, REST_API |-> REST_API,
     args |-> args, ext |-> ext, outcome |-> outcome, before |-> coll[1].store, res |-> res]

SystemEventsGet ==
    /\ Idle /\ coll # None /\ coll[1].cls = "SystemEvents"
    /\ \E c \in GetInputs["SystemEvents"] :
         LET r == SystemEvents_get(coll[1], c.args.time, c.args.host, c.args.id, c.flag,
                                   c.outcome)
         IN  /\ coll' = Some([coll[1] EXCEPT !.store = r.store])
             /\ last' = GetCall(c.REST_API, c.args, Some(c.flag), c.outcome, r)
    /\ UNCHANGED comp

AntiMalwareEventsGet ==
    /\ Idle /\ coll # None /\ coll[1].cls = "AntiMalwareEvents"
    /\ \E c \in GetInputs["AntiMalwareEvents"] :
         LET r == AntiMalwareEvents_get(coll[1], c.args.time, c.args.host, c.args.id,
                  c.args.rest, c.REST_API, c.outcome)
         IN  /\ coll' = Some([coll[1] EXCEPT !.store = r.store])
             /\ last' = GetCall(c.REST_API, c.args, None, c.outcome, r)
    /\ UNCHANGED comp

WebReputationEventsGet ==
    /\ Idle /\ coll # None /\ coll[1].cls = "WebReputationEvents"
    /\ \E c \in GetInputs["WebReputationEvents"] :
         LET r == WebReputationEvents_get(coll[1], c.args.time, c.args.host, c.args.id,
                  c.args.rest, c.REST_API, c.outcome)
         IN  /\ coll' = Some([coll[1] EXCEPT !.store = r.store])
             /\ last' = GetCall(c.REST_API, c.args, None, c.outcome, r)
    /\ UNCHANGED comp

FirewallEventsGet ==
    /\ Idle /\ coll # None /\ coll[1].cls = "FirewallEvents"
    /\ \E c \in GetInputs["FirewallEvents"] :
         LET r == FirewallEvents_get(coll[1], c.args.time, c.args.host, c.args.id,
                  c.outcome)
         IN  /\ coll' = Some([coll[1] EXCEPT !.store = r.store])
             /\ last' = GetCall(c.REST_API, c.args, None, c.outcome, r)
    /\ UNCHANGED comp

IntrusionPreventionEventsGet ==
    /\ Idle /\ coll # None /\ coll[1].cls = "IntrusionPreventionEvents"
    /\ \E c \in GetInputs["IntrusionPreventionEvents"] :
         LET r == IntrusionPreventionEvents_get(coll[1], c.args.time, c.args.host, c.args.id,
                  c.outcome)
         IN  /\ coll' = Some([coll[1] EXCEPT !.store = r.store])
             /\ last' = GetCall(c.REST_API, c.args, None, c.outcome, r)
    /\ UNCHANGED comp

IntegrityMonitoringEventsGet ==
    /\ Idle /\ coll # None /\ coll[1].cls = "IntegrityMonitoringEvents"
    /\ \E c \in GetInputs["IntegrityMonitoringEvents"] :
         LET r == IntegrityMonitoringEvents_get(coll[1], c.args.time, c.args.host, c.args.id,
                  c.args.rest, c.flag, c.REST_API, c.outcome)
         IN  /\ coll' = Some([coll[1] EXCEPT !.store = r.store])
             /\ last' = GetCall(c.REST_API, c.args, Some(c.flag), c.outcome, r)
    /\ UNCHANGED comp

LogInspectionEventsGet ==
    /\ Idle /\ coll # None /\ coll[1].cls = "LogInspectionEvents"
    /\ \E c \in GetInputs["LogInspectionEvents"] :
         LET r == LogInspectionEvents_get(coll[1], c.args.time, c.args.host, c.args.id,
                  c.args.rest, c.REST_API, c.outcome)
         IN  /\ coll' = Some([coll[1] EXCEPT !.store = r.store])
             /\ last' = GetCall(c.REST_API, c.args, None, c.outcome, r)
    /\ UNCHANGED comp

ApplicationControlEventsGet ==
    /\ Idle /\ coll # None /\ coll[1].cls = "ApplicationControlEvents"
    /\ \E c \in GetInputs["ApplicationControlEvents"] :
         LET r == ApplicationControlEvents_get(coll[1], c.args.rest, c.outcome)
         IN  /\ coll' = Some([coll[1] EXCEPT !.store = r.store])
             /\ last' = GetCall(c.REST_API, c.args, None, c.outcome, r)
    /\ UNCHANGED comp

\* c = Computer(host_details, manager): c is bound only when __init__ returns
NewComputer ==
    /\ Idle
    /\ \E host_details \in HostDetails, manager \in BOOLEAN :
         LET r == Computer(host_details, manager)
         IN  /\ comp' = IF r.err = "none" THEN r.obj ELSE comp
             /\ last' = [op |-> "Computer", host_details |-> host_details,
                         manager |-> manager, res |-> r]
    /\ UNCHANGED coll

\* What the remote side made of a manager operation; the method cannot see it
ManagerOutcomes == {"done", "fault"}

ActionCall(method, operation, outcome, res) ==
    [op |-> "action", method |-> method, operation |-> operation, outcome |-> outcome,
     self |-> comp[1], res |-> res]

SendEventsToManager ==
    /\ Idle /\ comp # None
    /\ \E o \in ManagerOutcomes :
         last' = ActionCall("send_events_to_manager", "request_events_from_computer", o,
                            send_events_to_manager(comp[1], o))
    /\ UNCHANGED <<coll, comp>>

ClearWarningsAndErrors ==
    /\ Idle /\ comp # None
    /\ \E o \in ManagerOutcomes :
         last' = ActionCall("clear_warnings_and_errors",
                            "clear_warnings_and_errors_from_computer", o,
                            clear_warnings_and_errors(comp[1], o))
    /\ UNCHANGED <<coll, comp>>

ScanForMalware ==
    /\ Idle /\ comp # None
    /\ \E o \in ManagerOutcomes :
         last' = ActionCall("scan_for_malware", "scan_computers_for_malware", o,
                            scan_for_malware(comp[1], o))
    /\ UNCHANGED <<coll, comp>>

ScanForIntegrity ==
    /\ Idle /\ comp # None
    /\ \E o \in ManagerOutcomes :
         last' = ActionCall("scan_for_integrity", "scan_computers_for_integrity", o,
                            scan_for_integrity(comp[1], o))
    /\ UNCHANGED <<coll, comp>>

ScanForRecommendations ==
    /\ Idle /\ comp # None
    /\ \E o \in ManagerOutcomes :
         last' = ActionCall("scan_for_recommendations", "scan_computers_for_recommendations", o,
                            scan_for_recommendations(comp[1], o))
    /\ UNCHANGED <<coll, comp>>

FiltersNext ==
    \/ CreateHostFilter
    \/ CreateTimeFilter
    \/ CreateIdFilter
    \/ CreateTagFilter
    \/ CreateExternalFilter
    \/ CreateRestEventFilter
    \/ Return

EventsNext ==
    \/ NewCollection
    \/ SystemEventsGet
    \/ AntiMalwareEventsGet
    \/ WebReputationEventsGet
    \/ FirewallEventsGet
    \/ IntrusionPreventionEventsGet
    \/ IntegrityMonitoringEventsGet
    \/ LogInspectionEventsGet
    \/ ApplicationControlEventsGet
    \/ Return

ComputerNext ==
    \/ NewComputer
    \/ SendEventsToManager
    \/ ClearWarningsAndErrors
    \/ ScanForMalware
    \/ ScanForIntegrity
    \/ ScanForRecommendations
    \/ Return

Next == FiltersNext \/ EventsNext \/ ComputerNext

\* The whole library
Spec == Init /\ [][Next]_vars
\* The filter builders alone
SpecFilters == Init /\ [][FiltersNext]_vars
\* One retrieval collection and its manager
SpecEvents == Init /\ [][EventsNext]_vars
\* One computer record and its manager
SpecComputer == Init /\ [][ComputerNext]_vars

(***************************************************************************)
(* Properties.                                                             *)
(***************************************************************************)
IsGet == last.op = "get"
\* The call reached manager._request
Dispatched == IsGet /\ last.res.reqs # <<>>
\* What the request carried: its query (REST) or its data (SOAP)
SentParms(req) == IF req.query # None THEN req.query[1] ELSE req.data[1]
\* The ids of the events of a response
EventIds(events, idField) == {events[i][idField] : i \in 1..Len(events)}
\* The last event of the response that carries the id
Newest(events, idField, id) ==
    events[CHOOSE i \in 1..Len(events) :
             /\ events[i][idField] = id
             /\ \A j \in (i+1)..Len(events) : events[j][idField] # id]

\* C1: a get() that returns leaves the keys stored before plus the ids of the
\* response, so an event whose id was already stored does not change the
\* size; each id of the response then maps to the record made of the
\* response's last event of that id, and every other id keeps its record.
\* A get() whose response holds only ids already stored, as when the same
\* response comes a second time, leaves the key set and the size as they were.
C1_FetchIdempotentById ==
    (IsGet /\ last.res.err = "none") =>
        LET events == last.res.events[1]
            idField == IdField(last.cls, last.REST_API)
            before == last.before
            after == coll[1].store
            ids == EventIds(events, idField)
        IN  /\ DOMAIN after = DOMAIN before \cup ids
            /\ Cardinality(DOMAIN after)
                 = Cardinality(DOMAIN before) + Cardinality(ids \ DOMAIN before)
            /\ \A id \in ids : after[id] = _Event(Newest(events, idField, id))
            /\ \A id \in DOMAIN before \ ids : after[id] = before[id]
            /\ ids \subseteq DOMAIN before
                 => /\ DOMAIN after = DOMAIN before
                    /\ Cardinality(DOMAIN after) = Cardinality(DOMAIN before)

\* A get() returned an event whose id was stored with another record.
C1_Witness ==
    /\ IsGet /\ last.res.err = "none"
    /\ \E id \in EventIds(last.res.events[1], IdField(last.cls, last.REST_API)) :
         /\ id \in DOMAIN last.before
         /\ coll[1].store[id] # last.before[id]
         /\ Cardinality(DOMAIN coll[1].store) = Cardinality(DOMAIN last.before)

\* C2: the value a get() returns is the number of ids the collection now
\* holds, over all the calls so far.
C2_CountIsStoredIds ==
    (IsGet /\ last.res.err = "none") =>
        last.res.ret = Some(Cardinality(DOMAIN coll[1].store))

\* A get() returned a count that is not the number of events of its response.
C2_Witness ==
    /\ IsGet /\ last.res.err = "none"
    /\ last.res.ret[1] # Len(last.res.events[1])
    /\ last.res.ret[1] > 1

IsFilter == last.op = "filter"
IsRest == last.builder = "create_rest_event_filter"
IsMember(op, valid_ops) == InList(upper(op), valid_ops)

\* C3 as stated: an operator that is no member of the enumeration makes the
\* builder fail with an InvalidOperatorError naming the valid values.
C3_AsStated ==
    IsFilter =>
      ((\E i \in DOMAIN last.operators : ~IsMember(last.operators[i].given, last.valid_ops))
         => /\ last.res.err = "InvalidOperatorError"
            /\ last.res.msg = ValidOperatorsMessage(last.valid_ops))

\* C3: an operator that is no member of the enumeration (for the REST
\* builder: a non-empty one) makes the builder raise and return no record;
\* the exception is an AssertionError whose message lists the valid
\* operators, except that the REST builder given no maxItems has already
\* raised TypeError.
C3_InvalidOperatorFails ==
    IsFilter =>
      ((\E i \in DOMAIN last.operators :
           /\ IsRest => Truthy(last.operators[i].given)
           /\ ~IsMember(last.operators[i].given, last.valid_ops))
         => /\ "val" \notin DOMAIN last.res
            /\ IF IsRest /\ last.args[2] = None
               THEN last.res.err = "TypeError"
               ELSE /\ last.res.err = "AssertionError"
                    /\ last.res.msg = ValidOperatorsMessage(last.valid_ops))

\* A builder was given an unknown word in lower case and raised.
C3_Witness ==
    /\ IsFilter
    /\ last.builder = "create_host_filter"
    /\ last.operators[1].given = lower(Bogus)
    /\ last.res.err = "AssertionError"

\* C4: operators that are members of the enumeration in any letter case are
\* accepted and stored in upper case, and every operator field a returned
\* record holds is a member of the enumeration.
C4_MembersAccepted ==
    IsFilter =>
      /\ (\A i \in DOMAIN last.operators : IsMember(last.operators[i].given, last.valid_ops))
           => /\ last.res.err = "none"
              /\ \A i \in DOMAIN last.operators :
                   last.res.val[last.operators[i].field]
                     = IF IsRest THEN Some(upper(last.operators[i].given))
                       ELSE upper(last.operators[i].given)
      /\ last.res.err = "none"
           => \A i \in DOMAIN last.operators :
                LET v == last.res.val[last.operators[i].field]
                IN  IF IsRest THEN v = None \/ InList(v[1], last.valid_ops)
                    ELSE InList(v, last.valid_ops)

SoapKeys == {"timeFilter", "hostFilter", "eventIdFilter"}
RestKeys == {"eventId", "eventIdOp", "eventTime", "eventTimeOp", "maxItems"}
\* The extension fields a class's get() adds to the filters
ExtKeys == IF last.cls = "SystemEvents" THEN {"includeNonHostEvents"}
           ELSE IF last.cls = "IntegrityMonitoringEvents" /\ last.REST_API THEN {"extendedDesc"}
           ELSE {}

\* C5: a get() called without filters on a collection with a manager builds
\* its parameters from the default filters and reaches manager._request.
C5_NoFilterDispatches ==
    (IsGet /\ last.manager /\ last.args = NoFilters) =>
        /\ last.res.parms.err = "none"
        /\ Dispatched
        /\ LET parms == SentParms(last.res.reqs[1])
           IN  IF last.REST_API
               THEN RestKeys \subseteq DOMAIN parms
               ELSE /\ parms["timeFilter"] = DefaultTimeFilter.val
                    /\ parms["hostFilter"] = DefaultHostFilter.val
                    /\ parms["eventIdFilter"] = DefaultIdFilter.val

\* C6: a REST get() sends the fields of one REST filter (the caller's when
\* given) plus the extension fields and none of the SOAP keys; a SOAP get()
\* sends exactly the three SOAP keys plus the extension fields.
C6_ParmsMatchTransport ==
    Dispatched =>
        LET parms == SentParms(last.res.reqs[1])
        IN  IF last.REST_API
            THEN /\ DOMAIN parms = RestKeys \cup ExtKeys
                 /\ DOMAIN parms \cap SoapKeys = {}
                 /\ FilterGiven(last.args.rest)
                      => \A k \in RestKeys : parms[k] = last.args.rest[1][k]
            ELSE DOMAIN parms = SoapKeys \cup ExtKeys

\* C7: when the response's status is not 200 the payload is not indexed and
\* the collection is left as it was.
C7_Requires200 ==
    (/\ Dispatched
     /\ ~last.outcome.raises
     /\ last.outcome.resp # None
     /\ last.outcome.resp[1].status # 200)
    => /\ last.res.events = None
       /\ coll[1].store = last.before

\* C8: a get() that builds its parameters on a collection with a manager
\* calls manager._request exactly once, whatever comes back; any other get()
\* never calls it.
C8_OneRequestPerFetch ==
    IsGet =>
        Len(last.res.reqs) = IF last.res.parms.err = "none" /\ last.manager THEN 1 ELSE 0

\* A get() sent one request and got a status other than 200 back.
C8_Witness ==
    /\ Dispatched
    /\ Len(last.res.reqs) = 1
    /\ ~last.outcome.raises
    /\ last.outcome.resp # None
    /\ last.outcome.resp[1].status = 500

\* The attributes a host detail's keys give
ExpectedAttrs(host_details) ==
    {RenameTable[i][2] : i \in {j \in 1..Len(RenameTable) : RenameTable[j][1] \in DOMAIN host_details}}
    \cup (IF "hostInterfaces" \in DOMAIN host_details THEN {"number_of_interfaces"} ELSE {})

\* C9: whatever keys the host detail lacks and whether or not a manager is
\* attached, the constructor returns, sets exactly the attributes whose keys
\* are present, and logs only when a manager is attached.
C9_ConstructionNeverRaises ==
    last.op = "Computer" =>
        /\ last.res.err = "none"
        /\ DOMAIN last.res.obj[1].attrs = ExpectedAttrs(last.host_details)
        /\ "hostInterfaces" \in DOMAIN last.host_details
             => last.res.obj[1].attrs["number_of_interfaces"]
                  = Len(last.host_details["hostInterfaces"])
        /\ last.res.logs # <<>> => last.manager

CorrespondingOperation ==
    [send_events_to_manager |-> "request_events_from_computer",
     clear_warnings_and_errors |-> "clear_warnings_and_errors_from_computer",
     scan_for_malware |-> "scan_computers_for_malware",
     scan_for_integrity |-> "scan_computers_for_integrity",
     scan_for_recommendations |-> "scan_computers_for_recommendations"]

C11_MaxItemsClamped ==
    (IsFilter /\ IsRest) =>
      /\ (/\ last.args[2] # None
          /\ \A i \in DOMAIN last.operators :
               Truthy(last.operators[i].given)
                 => IsMember(last.operators[i].given, last.valid_ops))
           => /\ last.res.err = "none"
              /\ last.res.val.maxItems
                   = IF last.args[2][1] >= 1 THEN last.args[2][1] ELSE 1
      /\ last.res.err = "none" => last.res.val.maxItems >= 1

\* The builder was given a maxItems below 1 and returned a record holding 1.
C11_Witness ==
    /\ IsFilter /\ IsRest
    /\ last.args[2] # None
    /\ last.args[2][1] < 1
    /\ last.res.err = "none"
    /\ last.res.val.maxItems = 1

\* _make_call returned: what the transport returned and what was handed back
Returned == IsGet /\ last.res.response # None

\* C12 as stated: the response handed back has a list as its data, the
\* transport's data itself when that is a list and a one-element list of it
\* otherwise, whatever response the transport returned.
C12_AsStated ==
    (Returned /\ last.outcome.resp # None) =>
        LET sent == last.outcome.resp[1]
            back == last.res.response[1][1]
        IN  /\ IsList(back.data)
            /\ back.data = IF IsList(sent.data) THEN sent.data ELSE List(<<sent.data>>)

\* C12: of a response whose status is 200 the data is handed back as a list,
\* unchanged when it is a list and wrapped into a one-element list otherwise,
\* the status staying as it is; a response of another status, and None, is
\* handed back as the transport returned it.
C12_DataListOn200 ==
    Returned =>
        IF last.outcome.resp # None /\ last.outcome.resp[1].status = 200
        THEN LET sent == last.outcome.resp[1]
                 back == last.res.response[1][1]
             IN  /\ last.res.response[1] # None
                 /\ back.status = 200
                 /\ IsList(back.data)
                 /\ back.data = IF IsList(sent.data) THEN sent.data ELSE List(<<sent.data>>)
        ELSE last.res.response[1] = last.outcome.resp

\* A single item came back with status 200 and was handed on as a list of it.
C12_Witness ==
    /\ Returned
    /\ last.outcome.resp # None
    /\ last.outcome.resp[1].status = 200
    /\ ~IsList(last.outcome.resp[1].data)
    /\ last.res.response[1][1].data = List(<<last.outcome.resp[1].data>>)

\* The ids the events of a response carry; an event may lack its id field
ResponseIds(events, idField) ==
    {events[i][idField] : i \in {j \in 1..Len(events) : idField \in DOMAIN events[j]}}

\* C13: whatever a get() does, return or raise, every id stored before it is
\* stored after it, every id it adds is the id of an event of its response,
\* and when it raises before it has the event list to iterate, the collection
\* is as it was.  A collection starts empty, so over any sequence of get()
\* calls its ids never shrink and all come from its responses.
C13_StoredIdsNeverShrink ==
    IsGet =>
        LET before == last.before
            after == coll[1].store
            seen == IF last.res.events = None THEN {}
                    ELSE ResponseIds(last.res.events[1], IdField(last.cls, last.REST_API))
        IN  /\ DOMAIN before \subseteq DOMAIN after
            /\ DOMAIN after \subseteq DOMAIN before \cup seen
            /\ \A id \in DOMAIN before \ seen : after[id] = before[id]
            /\ (last.res.err # "none" /\ last.res.events = None) => after = before

\* A get() on a collection that held events raised part-way through its
\* response, after it had stored a new id.
C13_Witness ==
    /\ IsGet
    /\ last.res.err = "KeyError"
    /\ last.res.events # None
    /\ DOMAIN last.before # {}
    /\ DOMAIN coll[1].store # DOMAIN last.before
    /\ DOMAIN last.before \subseteq DOMAIN coll[1].store

====
